---- MODULE Spec2Model ----
(***************************************************************************)
(* A model of the dingo-ode integration engine: StandardSolver.Solve with  *)
(* its three Iteration functions (Euler, RK2, RK4), the controllers        *)
(* StopAtTime and MultiController, the three recorders, and the TimeSeries *)
(* operations Clone, Clear, ToCSV and ToCSVwithNames as a caller uses them *)
(* between Solve calls.                                                    *)
(*                                                                         *)
(* Arithmetic is exact.  Times are integers counted in a unit of 0.25e-8,  *)
(* so the tolerance 1e-8 of StopAtTime is 4 units; the step sizes h are    *)
(* even, which makes h/2 exact, and the derivative functions return        *)
(* multiples of 6, which makes the divisions by 2 and by 6 of the          *)
(* Runge-Kutta stages exact.  A state vector is a sequence of integers; a  *)
(* Go slice is a reference into heap, so that sharing of storage between   *)
(* the caller, the solver and the recorder is visible.                     *)
(***************************************************************************)
EXTENDS Integers, Sequences, FiniteSets, TLC

\* ------------------------------------------------------------- bounds --
MaxT0 == 1
MaxTmax == 5
MaxHalfH == 2
MaxIter == 5
MaxSubs == 2
MaxOps == 4
\* Bits of the significand of a time: 53 in a float64, scaled down.
Mantissa == 7

\* ---------------------------------------------------------- constants --
\* The tolerance 1e-8 of StopAtTime, in time units of 0.25e-8.
Tol == 4

\* -------------------------------------------------------------- values --
\* Two solvers, each with the recorder and the files of its caller; Main is
\* the one that the specifications of a single solver run.
Solvers == {1, 2}
Main == {1}
NilErr == "nil"
ErrNoFunction == "ERR: the function f is not defined"
ErrF == "f: domain error"
ErrC == "controller: abnormal condition"
ErrNoData == "the timeseries has no data"
ErrNames == "the names does not match with the state dimension"
ErrCreate == "os.Create: error"
Panic == "panic: index out of range"
NilRef == 0
NilF == [kind |-> "nil", lim |-> 0]

Abs(x) == IF x < 0 THEN -x ELSE x

\* Times are float64: below 2^Mantissa every time of the model is a float,
\* above it the floats are Ulp(x) apart and a sum is rounded to the nearest
\* of them, to the one with the even significand when it lies half way.
RECURSIVE Ulp(_)
Ulp(x) == IF Abs(x) < 2^Mantissa THEN 1 ELSE 2 * Ulp(Abs(x) \div 2)

Round(x) ==
    LET u == Ulp(x)
        q == x \div u
        r == x % u IN
    IF 2 * r < u \/ (2 * r = u /\ q % 2 = 0) THEN q * u ELSE (q + 1) * u

\* tm + h of two float64.
FAdd(x, y) == Round(x + y)

\* --------------------------------------------- the derivative functions --
\* Function: a user-supplied f(t, X) returning (dXdt, err).  "unit" is the
\* constant field, "wave" a bounded field that depends on t and X, "domain"
\* is "wave" with a domain error from time lim on, "range" is "wave" with an
\* error where the first component of X is above lim.
Functions ==
    {[kind |-> "unit", lim |-> 0], [kind |-> "wave", lim |-> 0]}
        \cup {[kind |-> "domain", lim |-> l] : l \in {1, 3}}

StepFunctions == Functions \cup {[kind |-> "range", lim |-> l] : l \in {3, 9}}

Function(f, t, X) ==
    IF (f.kind = "domain" /\ t >= f.lim) \/ (f.kind = "range" /\ X[1] > f.lim)
    THEN [dXdt |-> <<>>, err |-> ErrF]
    ELSE [dXdt |-> [i \in 1..Len(X) |->
                       IF f.kind = "unit" THEN 6
                       ELSE 6 * (((X[i] + t) % 3) - 1)],
          err |-> NilErr]

\* ------------------------------------------------- the step algorithms --
\* Each returns the new vector X (<<>> for nil), the error, and the
\* evaluations of f it made, in order: the time and the error of each.
Eval(t, r) == [t |-> t, err |-> r.err]

\* Mutant: the error of f is dropped and the step goes on from Xn.
eulerIteration_SwallowsError(f, tn, Xn, h) ==
    LET r1 == Function(f, tn, Xn) IN
    IF r1.err # NilErr
    THEN [X |-> Xn, err |-> NilErr, evals |-> <<Eval(tn, r1)>>]
    ELSE [X |-> [i \in 1..Len(Xn) |-> Xn[i] + h * r1.dXdt[i]],
          err |-> NilErr, evals |-> <<Eval(tn, r1)>>]

eulerIteration(f, tn, Xn, h) ==
    LET r1 == Function(f, tn, Xn) IN
    IF r1.err # NilErr
    THEN [X |-> <<>>, err |-> r1.err, evals |-> <<Eval(tn, r1)>>]
    ELSE [X |-> [i \in 1..Len(Xn) |-> Xn[i] + h * r1.dXdt[i]],
          err |-> NilErr, evals |-> <<Eval(tn, r1)>>]

\* Mutant: when the second evaluation fails, the mediate point is returned
\* next to the error.
rk2Iteration_ReturnsPartial(f, tn, Xn, h) ==
    LET r1 == Function(f, tn, Xn) IN
    IF r1.err # NilErr
    THEN [X |-> <<>>, err |-> r1.err, evals |-> <<Eval(tn, r1)>>]
    ELSE
    LET Xm == [i \in 1..Len(Xn) |-> Xn[i] + (h * r1.dXdt[i]) \div 2]
        r2 == Function(f, tn + h \div 2, Xm) IN
    IF r2.err # NilErr
    THEN [X |-> Xm, err |-> r2.err,
          evals |-> <<Eval(tn, r1), Eval(tn + h \div 2, r2)>>]
    ELSE [X |-> [i \in 1..Len(Xn) |-> Xn[i] + h * r2.dXdt[i]],
          err |-> NilErr,
          evals |-> <<Eval(tn, r1), Eval(tn + h \div 2, r2)>>]

rk2Iteration(f, tn, Xn, h) ==
    LET r1 == Function(f, tn, Xn) IN
    IF r1.err # NilErr
    THEN [X |-> <<>>, err |-> r1.err, evals |-> <<Eval(tn, r1)>>]
    ELSE
    LET Xm == [i \in 1..Len(Xn) |-> Xn[i] + (h * r1.dXdt[i]) \div 2]
        r2 == Function(f, tn + h \div 2, Xm) IN
    IF r2.err # NilErr
    THEN [X |-> <<>>, err |-> r2.err,
          evals |-> <<Eval(tn, r1), Eval(tn + h \div 2, r2)>>]
    ELSE [X |-> [i \in 1..Len(Xn) |-> Xn[i] + h * r2.dXdt[i]],
          err |-> NilErr,
          evals |-> <<Eval(tn, r1), Eval(tn + h \div 2, r2)>>]

\* Mutant: the four increments are averaged with equal weights.
rk4Iteration_EqualWeights(f, tn, Xn, h) ==
    LET th == tn + h \div 2
        r1 == Function(f, tn, Xn) IN
    IF r1.err # NilErr
    THEN [X |-> <<>>, err |-> r1.err, evals |-> <<Eval(tn, r1)>>]
    ELSE
    LET k1 == [i \in 1..Len(Xn) |-> h * r1.dXdt[i]]
        Xm1 == [i \in 1..Len(Xn) |-> Xn[i] + k1[i] \div 2]
        r2 == Function(f, th, Xm1) IN
    IF r2.err # NilErr
    THEN [X |-> <<>>, err |-> r2.err, evals |-> <<Eval(tn, r1), Eval(th, r2)>>]
    ELSE
    LET k2 == [i \in 1..Len(Xn) |-> h * r2.dXdt[i]]
        Xm2 == [i \in 1..Len(Xn) |-> Xn[i] + k2[i] \div 2]
        r3 == Function(f, th, Xm2) IN
    IF r3.err # NilErr
    THEN [X |-> <<>>, err |-> r3.err,
          evals |-> <<Eval(tn, r1), Eval(th, r2), Eval(th, r3)>>]
    ELSE
    LET k3 == [i \in 1..Len(Xn) |-> h * r3.dXdt[i]]
        Xm3 == [i \in 1..Len(Xn) |-> Xn[i] + k3[i]]
        r4 == Function(f, tn + h, Xm3) IN
    IF r4.err # NilErr
    THEN [X |-> <<>>, err |-> r4.err,
          evals |-> <<Eval(tn, r1), Eval(th, r2), Eval(th, r3),
                      Eval(tn + h, r4)>>]
    ELSE
    LET k4 == [i \in 1..Len(Xn) |-> h * r4.dXdt[i]] IN
    [X |-> [i \in 1..Len(Xn) |->
               Xn[i] + (k1[i] + k2[i] + k3[i] + k4[i]) \div 4],
     err |-> NilErr,
     evals |-> <<Eval(tn, r1), Eval(th, r2), Eval(th, r3), Eval(tn + h, r4)>>]

rk4Iteration(f, tn, Xn, h) ==
    LET th == tn + h \div 2
        r1 == Function(f, tn, Xn) IN
    IF r1.err # NilErr
    THEN [X |-> <<>>, err |-> r1.err, evals |-> <<Eval(tn, r1)>>]
    ELSE
    LET k1 == [i \in 1..Len(Xn) |-> h * r1.dXdt[i]]
        Xm1 == [i \in 1..Len(Xn) |-> Xn[i] + k1[i] \div 2]
        r2 == Function(f, th, Xm1) IN
    IF r2.err # NilErr
    THEN [X |-> <<>>, err |-> r2.err, evals |-> <<Eval(tn, r1), Eval(th, r2)>>]
    ELSE
    LET k2 == [i \in 1..Len(Xn) |-> h * r2.dXdt[i]]
        Xm2 == [i \in 1..Len(Xn) |-> Xn[i] + k2[i] \div 2]
        r3 == Function(f, th, Xm2) IN
    IF r3.err # NilErr
    THEN [X |-> <<>>, err |-> r3.err,
          evals |-> <<Eval(tn, r1), Eval(th, r2), Eval(th, r3)>>]
    ELSE
    LET k3 == [i \in 1..Len(Xn) |-> h * r3.dXdt[i]]
        Xm3 == [i \in 1..Len(Xn) |-> Xn[i] + k3[i]]
        r4 == Function(f, tn + h, Xm3) IN
    IF r4.err # NilErr
    THEN [X |-> <<>>, err |-> r4.err,
          evals |-> <<Eval(tn, r1), Eval(th, r2), Eval(th, r3),
                      Eval(tn + h, r4)>>]
    ELSE
    LET k4 == [i \in 1..Len(Xn) |-> h * r4.dXdt[i]] IN
    [X |-> [i \in 1..Len(Xn) |->
               Xn[i] + (k1[i] + 2 * k2[i] + 2 * k3[i] + k4[i]) \div 6],
     err |-> NilErr,
     evals |-> <<Eval(tn, r1), Eval(th, r2), Eval(th, r3), Eval(tn + h, r4)>>]

\* The Iteration function a solver was constructed with.
Algorithms == {"Euler", "RK2", "RK4"}

Iteration(alg, f, tn, Xn, h) ==
    CASE alg = "Euler" -> eulerIteration(f, tn, Xn, h)
      [] alg = "RK2" -> rk2Iteration(f, tn, Xn, h)
      [] alg = "RK4" -> rk4Iteration(f, tn, Xn, h)

\* -------------------------------------------------------- controllers --
\* A controller value: StopAtTime(tmax), a user-written controller that
\* answers (stop, err) always ("Fixed") or from time at on and (false, nil)
\* before ("User"), or MultiController(subs...).
StopAtTimeCtl(tmax) ==
    [kind |-> "StopAtTime", tmax |-> tmax, at |-> 0, stop |-> FALSE,
     err |-> NilErr, subs |-> <<>>]

UserCtl(at, stop, err) ==
    [kind |-> "User", tmax |-> 0, at |-> at, stop |-> stop, err |-> err,
     subs |-> <<>>]

FixedCtl(stop, err) ==
    [kind |-> "Fixed", tmax |-> 0, at |-> 0, stop |-> stop, err |-> err,
     subs |-> <<>>]

MultiCtl(subs) ==
    [kind |-> "Multi", tmax |-> 0, at |-> 0, stop |-> FALSE, err |-> NilErr,
     subs |-> subs]

NeverStop == FixedCtl(FALSE, NilErr)
AlwaysStop == FixedCtl(TRUE, NilErr)
ErrorController == FixedCtl(FALSE, ErrC)

\* Mutant: a time exactly one tolerance beyond tmax is still accepted.
StopAtTime_InclusiveTolerance(tmax, t, X) ==
    LET delta == Abs(t - tmax) IN
    IF delta <= Tol \/ t <= tmax
    THEN [stop |-> FALSE, err |-> NilErr]
    ELSE [stop |-> TRUE, err |-> NilErr]

\* Mutant: tmax itself is treated as exceeded.
StopAtTime_StopsAtTmax(tmax, t, X) ==
    IF t < tmax
    THEN [stop |-> FALSE, err |-> NilErr]
    ELSE [stop |-> TRUE, err |-> NilErr]

\* Mutant: no tolerance.
StopAtTime_NoTolerance(tmax, t, X) ==
    IF t <= tmax
    THEN [stop |-> FALSE, err |-> NilErr]
    ELSE [stop |-> TRUE, err |-> NilErr]

StopAtTime(tmax, t, X) ==
    LET delta == Abs(t - tmax) IN
    IF delta < Tol \/ t <= tmax
    THEN [stop |-> FALSE, err |-> NilErr]
    ELSE [stop |-> TRUE, err |-> NilErr]

UserController(c, t, X) ==
    IF c.kind = "Fixed" \/ t >= c.at
    THEN [stop |-> c.stop, err |-> c.err]
    ELSE [stop |-> FALSE, err |-> NilErr]

\* A call c(t, X) of a controller that is not an aggregate.
CallController(c, t, X) ==
    IF c.kind = "StopAtTime"
    THEN StopAtTime(c.tmax, t, X)
    ELSE UserController(c, t, X)

\* Mutant: the boolean of a failing sub-controller is passed on as it is.
RECURSIVE MultiFrom_PassesStop(_, _, _, _)
MultiFrom_PassesStop(controllers, i, t, X) ==
    IF i > Len(controllers)
    THEN [stop |-> FALSE, err |-> NilErr, calls |-> <<>>]
    ELSE
    LET r == CallController(controllers[i], t, X)
        call == [i |-> i, stop |-> r.stop, err |-> r.err] IN
    IF r.err # NilErr
    THEN [stop |-> r.stop, err |-> r.err, calls |-> <<call>>]
    ELSE IF r.stop
    THEN [stop |-> TRUE, err |-> NilErr, calls |-> <<call>>]
    ELSE LET rest == MultiFrom_PassesStop(controllers, i + 1, t, X) IN
         [rest EXCEPT !.calls = <<call>> \o @]

\* The loop of MultiController from index i on; calls lists the indices of
\* the sub-controllers it invoked with the answer of each, in order.
RECURSIVE MultiFrom(_, _, _, _)
MultiFrom(controllers, i, t, X) ==
    IF i > Len(controllers)
    THEN [stop |-> FALSE, err |-> NilErr, calls |-> <<>>]
    ELSE
    LET r == CallController(controllers[i], t, X)
        call == [i |-> i, stop |-> r.stop, err |-> r.err] IN
    IF r.err # NilErr
    THEN [stop |-> TRUE, err |-> r.err, calls |-> <<call>>]
    ELSE IF r.stop
    THEN [stop |-> TRUE, err |-> NilErr, calls |-> <<call>>]
    ELSE LET rest == MultiFrom(controllers, i + 1, t, X) IN
         [rest EXCEPT !.calls = <<call>> \o @]

MultiController(controllers, t, X) == MultiFrom(controllers, 1, t, X)

\* The call c(tn, Xn) of Solve.
Controller(c, t, X) ==
    IF c.kind = "Multi"
    THEN MultiController(c.subs, t, X)
    ELSE LET r == CallController(c, t, X) IN
         [stop |-> r.stop, err |-> r.err, calls |-> <<>>]

\* ---------------------------------------------------------- recorders --
\* The recorder argument of Solve: nil, or one of the three recorders.
RecorderArgs == {"nil", "None", "Logger", "TimeSeries"}

\* ---------------------------------------------------------------- state --
VARIABLES
    iteration,     \* StandardSolver.iteration of each solver
    solver_t,      \* StandardSolver.t
    solver_X,      \* StandardSolver.X, a reference (NilRef for nil)
    heap,          \* the state vectors allocated so far
    pc,            \* where each solver's Solve call is
    args,          \* the arguments (f, t0, X0, h, c, r) of the call
    tm, Xm,        \* Solve's locals: the current sample
    tn, Xn,        \* Solve's locals: the sample just computed
    nbIterations,  \* Solve's local counter
    ret,           \* what the last Solve call returned
    series,        \* RecorderTimeSeries.Series of the caller's recorder
    out,           \* the lines RecorderLogger printed
    log,           \* history: the calls Solve made, in order
    ops,           \* history: what the caller did, in order
    clone,         \* the TimeSeries the caller got from Series.Clone()
    csv,           \* the files created by the exports
    csvRet         \* what the last export returned

vars ==
    <<iteration, solver_t, solver_X, heap, pc, args, tm, Xm, tn, Xn,
      nbIterations, ret, series, out, log, ops, clone, csv, csvRet>>

\* What belongs to the caller's use of the time series.
callerVars == <<clone, csv, csvRet>>

NoArgs ==
    [f |-> NilF, t0 |-> 0, X0 |-> NilRef, h |-> 0, c |-> NeverStop,
     r |-> "nil"]
NoRet == [n |-> 0, err |-> "none"]

NoExport == [err |-> "none", names |-> <<>>, created |-> FALSE]

\* An entry of ops: the operation, the lengths of log and of the series when
\* it began and the arguments of the Solve call before it.
Op(s, op) ==
    [op |-> op, at |-> Len(log[s]), len |-> Len(series[s]), args |-> args[s]]

\* A history entry: a Record call, an evaluation of f, a call of the
\* controller c, or a call of sub-controller i inside MultiController.
Event(op, t, x, i, stop, err) ==
    [op |-> op, t |-> t, x |-> x, i |-> i, stop |-> stop, err |-> err]

RecordEvent(t, X) == Event("Record", t, X, 0, FALSE, NilErr)

FEvents(evals) ==
    [k \in 1..Len(evals) |->
        Event("f", evals[k].t, NilRef, k, FALSE, evals[k].err)]

ControllerEvents(t, X, r) ==
    [k \in 1..Len(r.calls) |->
        Event("sub", t, X, r.calls[k].i, r.calls[k].stop, r.calls[k].err)]
    \o <<Event("c", t, X, 0, r.stop, r.err)>>

\* RecorderLogger.Record reads X[0] and X[1]: an index out of range when the
\* state has one component.
RecordPanics(r, x) == r = "Logger" /\ Len(x) < 2

\* Mutant: the time series gets the new sample at its front.
Record_Prepends(s, r, t, X, x) ==
    /\ log' = [log EXCEPT ![s] = Append(@, RecordEvent(t, X))]
    /\ series' = IF r = "TimeSeries"
                 THEN [series EXCEPT
                         ![s] = <<[time |-> t, state |-> X]>> \o @]
                 ELSE series
    /\ out' = IF r = "Logger" /\ ~RecordPanics(r, x)
              THEN Append(out, <<t, x[1], x[2]>>)
              ELSE out

\* Mutant: the initial sample of a call starts the time series over.
Record_StartsOver(s, r, t, X, x) ==
    /\ log' = [log EXCEPT ![s] = Append(@, RecordEvent(t, X))]
    /\ series' = IF r = "TimeSeries"
                 THEN [series EXCEPT
                         ![s] = IF pc[s] = "record"
                                THEN Append(@, [time |-> t, state |-> X])
                                ELSE <<[time |-> t, state |-> X]>>]
                 ELSE series
    /\ out' = IF r = "Logger" /\ ~RecordPanics(r, x)
              THEN Append(out, <<t, x[1], x[2]>>)
              ELSE out

\* r.Record(t, X) in the Solve call of solver s; x is the content of X.
Record(s, r, t, X, x) ==
    /\ log' = [log EXCEPT ![s] = Append(@, RecordEvent(t, X))]
    /\ series' = IF r = "TimeSeries"
                 THEN [series EXCEPT
                         ![s] = Append(@, [time |-> t, state |-> X])]
                 ELSE series
    /\ out' = IF r = "Logger" /\ ~RecordPanics(r, x)
              THEN Append(out, <<t, x[1], x[2]>>)
              ELSE out

Init ==
    /\ \E alg \in Algorithms : iteration = [s \in Solvers |-> alg]
    /\ solver_t = [s \in Solvers |-> 0]
    /\ solver_X = [s \in Solvers |-> NilRef]
    /\ heap = <<>>
    /\ pc = [s \in Solvers |-> "idle"]
    /\ args = [s \in Solvers |-> NoArgs]
    /\ tm = [s \in Solvers |-> 0]
    /\ Xm = [s \in Solvers |-> NilRef]
    /\ tn = [s \in Solvers |-> 0]
    /\ Xn = [s \in Solvers |-> NilRef]
    /\ nbIterations = [s \in Solvers |-> 0]
    /\ ret = [s \in Solvers |-> NoRet]
    /\ series = [s \in Solvers |-> <<>>]
    /\ out = <<>>
    /\ log = [s \in Solvers |-> <<>>]
    /\ ops = [s \in Solvers |-> <<>>]
    /\ clone = [s \in Solvers |-> <<>>]
    /\ csv = [s \in Solvers |-> <<>>]
    /\ csvRet = [s \in Solvers |-> NoExport]

\* Mutant: the nil check is missing.
NilFunction_Unchecked(f) == FALSE

\* if f == nil
NilFunction(f) == f = NilF

\* if r == nil { r = &RecorderNone{} }
Recorder(r) == IF r = "nil" THEN "None" ELSE r

\* Mutant: the step that raised the error is counted.
ReturnError_CountsStep(s, err) ==
    /\ ret' = [ret EXCEPT ![s] = [n |-> nbIterations[s] + 1, err |-> err]]
    /\ pc' = [pc EXCEPT ![s] = "returned"]

\* return nbIterations, err
ReturnError(s, err) ==
    /\ ret' = [ret EXCEPT ![s] = [n |-> nbIterations[s], err |-> err]]
    /\ pc' = [pc EXCEPT ![s] = "returned"]

\* Mutant: the boolean is looked at first, so that (false, err) commits.
Decision_StopFirst(r) ==
    IF ~r.stop THEN "commit"
    ELSE IF r.err # NilErr THEN "error"
    ELSE "break"

\* What Solve does with the controller's answer (stop, err): the error is
\* looked at first.
Decision(r) ==
    IF r.err # NilErr THEN "error"
    ELSE IF r.stop THEN "break"
    ELSE "commit"

\* Mutant: the current sample is a variable that all the solvers share.
Commit_SharedSample(s) ==
    /\ Xm' = [z \in Solvers |-> Xn[s]]
    /\ tm' = [z \in Solvers |-> tn[s]]
    /\ nbIterations' = [nbIterations EXCEPT ![s] = @ + 1]
    /\ pc' = [pc EXCEPT ![s] = "iterate"]

\* Xm = Xn; tm = tn; nbIterations++
Commit(s) ==
    /\ Xm' = [Xm EXCEPT ![s] = Xn[s]]
    /\ tm' = [tm EXCEPT ![s] = tn[s]]
    /\ nbIterations' = [nbIterations EXCEPT ![s] = @ + 1]
    /\ pc' = [pc EXCEPT ![s] = "iterate"]

\* Mutant: the sample at which the controller stopped becomes the result.
Finish_StoresLastSample(s) ==
    /\ solver_t' = [solver_t EXCEPT ![s] = tn[s]]
    /\ solver_X' = [solver_X EXCEPT ![s] = Xn[s]]
    /\ ret' = [ret EXCEPT ![s] = [n |-> nbIterations[s], err |-> NilErr]]
    /\ pc' = [pc EXCEPT ![s] = "returned"]

\* After the break: solver.t = tm; solver.X = Xm; return nbIterations, nil
Finish(s) ==
    /\ solver_t' = [solver_t EXCEPT ![s] = tm[s]]
    /\ solver_X' = [solver_X EXCEPT ![s] = Xm[s]]
    /\ ret' = [ret EXCEPT ![s] = [n |-> nbIterations[s], err |-> NilErr]]
    /\ pc' = [pc EXCEPT ![s] = "returned"]

\* Mutant: a solver that ran before starts from the time of its result.
StartTime_Resumes(s, t0) == IF pc[s] = "returned" THEN solver_t[s] ELSE t0

\* tm := t0
StartTime(s, t0) == t0

\* Solve, from its entry to the first r.Record(tm, Xm), called with the
\* slice X0 whose content is x0; hp is the heap at the call.
SolveWith(s, f, t0, X0, x0, hp, h, c, r) ==
    /\ pc[s] \in {"idle", "returned"}
    /\ ops' = [ops EXCEPT ![s] = Append(@, Op(s, "Solve"))]
    /\ heap' = hp
    /\ args' = [args EXCEPT
                  ![s] = [f |-> f, t0 |-> t0, X0 |-> X0, h |-> h, c |-> c,
                          r |-> r]]
    /\ IF NilFunction(f)
       THEN /\ ret' = [ret EXCEPT ![s] = [n |-> 0, err |-> ErrNoFunction]]
            /\ pc' = [pc EXCEPT ![s] = "returned"]
            /\ UNCHANGED <<tm, Xm, nbIterations, series, out, log>>
       ELSE /\ ret' = [ret EXCEPT ![s] = NoRet]
            /\ tm' = [tm EXCEPT ![s] = StartTime(s, t0)]
            /\ Xm' = [Xm EXCEPT ![s] = X0]
            /\ Record(s, Recorder(r), StartTime(s, t0), X0, x0)
            /\ nbIterations' = [nbIterations EXCEPT ![s] = 0]
            /\ pc' = [pc EXCEPT
                        ![s] = IF RecordPanics(Recorder(r), x0)
                               THEN "panic" ELSE "iterate"]
    /\ UNCHANGED <<iteration, solver_t, solver_X, tn, Xn, callerVars>>

\* A Solve call whose X0 is a vector the caller has just made: a new cell.
SolveCall(s, f, t0, x0, h, c, r) ==
    SolveWith(s, f, t0, Len(heap) + 1, x0, Append(heap, x0), h, c, r)

\* A Solve call whose X0 is a slice that exists already.
SolveShared(s, f, t0, X0, h, c, r) ==
    SolveWith(s, f, t0, X0, heap[X0], heap, h, c, r)

\* Mutant: the step writes its result into the vector it was given.
NewVector_InPlace(hp, given, x) ==
    [heap |-> [hp EXCEPT ![given] = x], ref |-> given]

\* Xs := make([]float64, len(Xn)), written and returned by a step that was
\* given the vector at reference given: x, the value computed, is a new cell.
NewVector(hp, given, x) == [heap |-> Append(hp, x), ref |-> Len(hp) + 1]

\* Xn, err := solver.iteration(f, tm, Xm, h), the error return, tn := tm + h.
Iterate(s) ==
    LET a == args[s]
        res == Iteration(iteration[s], a.f, tm[s], heap[Xm[s]], a.h) IN
    /\ pc[s] = "iterate"
    /\ nbIterations[s] < MaxIter
    /\ log' = [log EXCEPT ![s] = @ \o FEvents(res.evals)]
    /\ IF res.err # NilErr
       THEN /\ ReturnError(s, res.err)
            /\ UNCHANGED <<heap, tn, Xn>>
       ELSE /\ heap' = NewVector(heap, Xm[s], res.X).heap
            /\ Xn' = [Xn EXCEPT ![s] = NewVector(heap, Xm[s], res.X).ref]
            /\ tn' = [tn EXCEPT ![s] = FAdd(tm[s], a.h)]
            /\ pc' = [pc EXCEPT ![s] = "record"]
            /\ UNCHANGED ret
    /\ UNCHANGED <<iteration, solver_t, solver_X, args, tm, Xm,
                   nbIterations, series, out, ops, callerVars>>

\* Mutant: the computed sample is not handed to the recorder.
RecordStep_Skipped(s) ==
    /\ pc[s] = "record"
    /\ pc' = [pc EXCEPT ![s] = "control"]
    /\ UNCHANGED <<iteration, solver_t, solver_X, heap, args, tm, Xm, tn, Xn,
                   nbIterations, ret, series, out, log, ops, callerVars>>

\* r.Record(tn, Xn)
RecordStep(s) ==
    LET r == Recorder(args[s].r) IN
    /\ pc[s] = "record"
    /\ Record(s, r, tn[s], Xn[s], heap[Xn[s]])
    /\ pc' = [pc EXCEPT
                ![s] = IF RecordPanics(r, heap[Xn[s]])
                       THEN "panic" ELSE "control"]
    /\ UNCHANGED <<iteration, solver_t, solver_X, heap, args, tm, Xm, tn, Xn,
                   nbIterations, ret, ops, callerVars>>

\* stop, err := c(tn, Xn) and what follows it: the error return, the break
\* with the assignments to solver.t and solver.X, or the commit.
Control(s) ==
    LET a == args[s]
        r == Controller(a.c, tn[s], heap[Xn[s]]) IN
    /\ pc[s] = "control"
    /\ log' = [log EXCEPT ![s] = @ \o ControllerEvents(tn[s], Xn[s], r)]
    /\ CASE Decision(r) = "error" ->
              /\ ReturnError(s, r.err)
              /\ UNCHANGED <<solver_t, solver_X, tm, Xm, nbIterations>>
         [] Decision(r) = "break" ->
              /\ Finish(s)
              /\ UNCHANGED <<tm, Xm, nbIterations>>
         [] Decision(r) = "commit" ->
              /\ Commit(s)
              /\ UNCHANGED <<solver_t, solver_X, ret>>
    /\ UNCHANGED <<iteration, heap, args, tn, Xn, series, out, ops,
                   callerVars>>

\* Mutant: Result() gives the sample that the loop committed last.
Result_LastCommitted(s) == [t |-> tm[s], X |-> Xm[s]]

\* Result()
Result(s) == [t |-> solver_t[s], X |-> solver_X[s]]

\* ------------------------------------------------------- a call by itself --
\* The loop of Solve as a function of its locals, for a call that nothing
\* else runs next to: the count and the error returned, whether solver.t and
\* solver.X were assigned and to what, and the samples handed to Record.
\* A call that is still in the loop after MaxIter commits is "running".
RECURSIVE SolveLoop(_, _, _, _, _, _, _, _)
SolveLoop(alg, f, h, c, t, x, n, recorded) ==
    IF n >= MaxIter
    THEN [n |-> n, err |-> "running", stored |-> FALSE, t |-> t, X |-> x,
          recorded |-> recorded]
    ELSE
    LET res == Iteration(alg, f, t, x, h) IN
    IF res.err # NilErr
    THEN [n |-> n, err |-> res.err, stored |-> FALSE, t |-> t, X |-> x,
          recorded |-> recorded]
    ELSE
    LET next == FAdd(t, h)
        all == Append(recorded, [time |-> next, state |-> res.X])
        r == Controller(c, next, res.X) IN
    CASE Decision(r) = "error" ->
           [n |-> n, err |-> r.err, stored |-> FALSE, t |-> t, X |-> x,
            recorded |-> all]
      [] Decision(r) = "break" ->
           [n |-> n, err |-> NilErr, stored |-> TRUE, t |-> t, X |-> x,
            recorded |-> all]
      [] Decision(r) = "commit" ->
           SolveLoop(alg, f, h, c, next, res.X, n + 1, all)

\* Solve(f, t0, X0, h, c, r) by itself, with a non-nil f.
SolveAlone(alg, f, t0, x0, h, c) ==
    SolveLoop(alg, f, h, c, t0, x0, 0, <<[time |-> t0, state |-> x0]>>)

\* ----------------------------------------------------------- the caller --
\* What the caller of solver s does between its Solve calls.  MaxOps bounds
\* the number of its operations, the Solve calls included.
CallerReady(s) == pc[s] \in {"idle", "returned"} /\ Len(ops[s]) < MaxOps

\* X[0] = v, through a slice X that the caller holds: the X0 it passed to
\* Solve or the slice that Result() returned.
CallerWrite(s, X, v) ==
    /\ CallerReady(s)
    /\ X # NilRef
    /\ heap[X][1] # v
    /\ heap' = [heap EXCEPT ![X][1] = v]
    /\ ops' = [ops EXCEPT ![s] = Append(@, Op(s, "Write"))]
    /\ UNCHANGED <<iteration, solver_t, solver_X, pc, args, tm, Xm, tn, Xn,
                   nbIterations, ret, series, out, log, callerVars>>

\* --------------------------------------------------------------- inputs --
\* Initial times at or near 0, and one beyond every tmax + Tol.
T0s == (0..MaxT0) \cup {MaxTmax + Tol}
Hs == {2 * k : k \in -1..MaxHalfH}
X0s == {<<1>>, <<1, 2>>}
Fs == Functions \cup {NilF}

Controllers ==
    {StopAtTimeCtl(tmax) : tmax \in 0..MaxTmax}
        \cup {FixedCtl(stop, err) : stop \in BOOLEAN, err \in {NilErr, ErrC}}
        \cup {UserCtl(Tol, stop, err) :
                stop \in BOOLEAN, err \in {NilErr, ErrC}}

SubControllers ==
    {NeverStop, AlwaysStop, ErrorController, FixedCtl(TRUE, ErrC),
     StopAtTimeCtl(0)}

SeqsUpTo(S, n) == UNION {[1..k -> S] : k \in 0..n}

MultiControllers == {MultiCtl(subs) : subs \in SeqsUpTo(SubControllers, MaxSubs)}

\* ------------------------------------------------------ the time series --
\* Mutant: the clone of a sample keeps the slice of the sample.
TimeDataClone_SharesState(data, ref) ==
    [time |-> data.time, state |-> data.state]

\* TimeData.Clone: the state is copied into a new slice, at reference ref.
TimeDataClone(data, ref) == [time |-> data.time, state |-> ref]

\* TimeSeries.Clone: the clone and the heap with the copies of the states.
TimeSeriesClone(ser, hp) ==
    [clone |-> [i \in 1..Len(ser) |-> TimeDataClone(ser[i], Len(hp) + i)],
     heap |-> hp \o [i \in 1..Len(ser) |-> hp[ser[i].state]]]

\* timeseries := recorder.Series.Clone()
Clone(s) ==
    /\ CallerReady(s)
    /\ clone' = [clone EXCEPT ![s] = TimeSeriesClone(series[s], heap).clone]
    /\ heap' = TimeSeriesClone(series[s], heap).heap
    /\ ops' = [ops EXCEPT ![s] = Append(@, Op(s, "Clone"))]
    /\ UNCHANGED <<iteration, solver_t, solver_X, pc, args, tm, Xm, tn, Xn,
                   nbIterations, ret, series, out, log, csv, csvRet>>

\* recorder.Series.Clear(): *series = make(TimeSeries, 0)
Clear(s) ==
    /\ CallerReady(s)
    /\ series' = [series EXCEPT ![s] = <<>>]
    /\ ops' = [ops EXCEPT ![s] = Append(@, Op(s, "Clear"))]
    /\ UNCHANGED <<iteration, solver_t, solver_X, heap, pc, args, tm, Xm, tn,
                   Xn, nbIterations, ret, out, log, callerVars>>

\* The names ToCSV generates: "x0", "x1", ...
DefaultNames == <<"x0", "x1">>

\* ToCSVwithNames: the error returned, and the file when one is created (the
\* header and the number of rows); createOk says whether os.Create succeeds.
ToCSVwithNames(ser, hp, names, createOk) ==
    IF Len(ser) = 0
    THEN [err |-> ErrNoData, names |-> names, created |-> FALSE]
    ELSE IF Len(names) # Len(hp[ser[1].state])
    THEN [err |-> ErrNames, names |-> names, created |-> FALSE]
    ELSE IF ~createOk
    THEN [err |-> ErrCreate, names |-> names, created |-> FALSE]
    ELSE [err |-> NilErr, names |-> names, created |-> TRUE]

\* ToCSV: len(series[0].state) is read first, an index out of range when the
\* series is empty.
ToCSV(ser, hp, createOk) ==
    IF Len(ser) = 0
    THEN [err |-> Panic, names |-> <<>>, created |-> FALSE]
    ELSE ToCSVwithNames(ser, hp,
                        SubSeq(DefaultNames, 1, Len(hp[ser[1].state])),
                        createOk)

\* The caller's export of the series of its recorder, with outcome r.
Export(s, op, r) ==
    /\ CallerReady(s)
    /\ csvRet' = [csvRet EXCEPT ![s] = r]
    /\ csv' = IF r.created
              THEN [csv EXCEPT
                      ![s] = Append(@, [header |-> <<"t">> \o r.names,
                                        rows |-> Len(series[s])])]
              ELSE csv
    /\ pc' = IF r.err = Panic THEN [pc EXCEPT ![s] = "panic"] ELSE pc
    /\ ops' = [ops EXCEPT ![s] = Append(@, Op(s, op))]
    /\ UNCHANGED <<iteration, solver_t, solver_X, heap, args, tm, Xm, tn, Xn,
                   nbIterations, ret, series, out, log, clone>>

\* ------------------------------------------------------- specifications --
\* One Solve call on a fresh solver, with any of the arguments above.
Call(s) ==
    /\ pc[s] = "idle"
    /\ \E f \in Fs, t0 \in T0s, x0 \in X0s, h \in Hs, c \in Controllers,
          r \in RecorderArgs :
          SolveCall(s, f, t0, x0, h, c, r)

Next == \E s \in Main : Call(s) \/ Iterate(s) \/ RecordStep(s) \/ Control(s)

Spec == Init /\ [][Next]_vars

\* One Solve call controlled by a MultiController.
CallMulti(s) ==
    /\ pc[s] = "idle"
    /\ \E f \in Functions, t0 \in T0s, x0 \in X0s, h \in Hs,
          c \in MultiControllers :
          SolveCall(s, f, t0, x0, h, c, "TimeSeries")

NextMulti ==
    \E s \in Main : CallMulti(s) \/ Iterate(s) \/ RecordStep(s) \/ Control(s)

SpecMulti == Init /\ [][NextMulti]_vars

\* One Solve call recorded in a time series, after which the caller writes
\* to the vectors it holds.
CallAlias(s) ==
    /\ pc[s] = "idle"
    /\ \E x0 \in X0s, h \in {2, 4}, tmax \in 0..MaxTmax :
          SolveCall(s, [kind |-> "wave", lim |-> 0], 0, x0, h,
                    StopAtTimeCtl(tmax), "TimeSeries")

Write(s) ==
    \E X \in {args[s].X0, Result(s).X} : CallerWrite(s, X, MaxTmax + Tol)

NextAlias ==
    \E s \in Main :
        CallAlias(s) \/ Iterate(s) \/ RecordStep(s) \/ Control(s) \/ Write(s)

SpecAlias == Init /\ [][NextAlias]_vars

\* One Solve call that runs the step function on derivative functions that
\* fail at a time or at a state, until f fails or the run is stopped.
CallStep(s) ==
    /\ pc[s] = "idle"
    /\ \E f \in StepFunctions, t0 \in 0..MaxT0, x0 \in X0s, h \in Hs,
          c \in {NeverStop, StopAtTimeCtl(MaxTmax)} :
          SolveCall(s, f, t0, x0, h, c, "TimeSeries")

NextStep ==
    \E s \in Main : CallStep(s) \/ Iterate(s) \/ RecordStep(s) \/ Control(s)

SpecStep == Init /\ [][NextStep]_vars

\* Two Solve calls one after the other on solver 1, the second with the
\* same recorder, and then the arguments of the second call given to
\* solver 2, which has not run before.
TwiceFunctions ==
    {[kind |-> "wave", lim |-> 0], [kind |-> "domain", lim |-> 3], NilF}

TwiceControllers ==
    {StopAtTimeCtl(1), StopAtTimeCtl(MaxTmax), UserCtl(Tol, FALSE, ErrC)}

CallTwice(s) ==
    /\ s \in Main
    /\ Len(ops[s]) < 2
    /\ \E f \in TwiceFunctions, t0 \in T0s, h \in {2, 4},
          c \in TwiceControllers :
          SolveCall(s, f, t0, <<1, 2>>, h, c, "TimeSeries")

CallSame(s) ==
    /\ s \notin Main
    /\ pc[s] = "idle"
    /\ \E m \in Main :
          /\ pc[m] = "returned"
          /\ Len(ops[m]) = 2
          /\ SolveCall(s, args[m].f, args[m].t0, heap[args[m].X0],
                       args[m].h, args[m].c, args[m].r)

NextTwice ==
    \E s \in Solvers :
        \/ CallTwice(s)
        \/ CallSame(s)
        \/ Iterate(s)
        \/ RecordStep(s)
        \/ Control(s)

SpecTwice == Init /\ [][NextTwice]_vars

\* A caller that runs Solve with one RecorderTimeSeries, clones and clears
\* its series and exports it, in any order.
NameLists == {<<"x">>, <<"x", "v">>, <<"L", "D", "Z">>}

CallSeries(s) ==
    /\ CallerReady(s)
    /\ \E t0 \in {0, MaxT0}, x0 \in X0s :
          SolveCall(s, [kind |-> "wave", lim |-> 0], t0, x0, 2,
                    StopAtTimeCtl(1), "TimeSeries")

ExportCSV(s) ==
    \E createOk \in BOOLEAN :
        Export(s, "ToCSV", ToCSV(series[s], heap, createOk))

ExportCSVwithNames(s) ==
    \E names \in NameLists, createOk \in BOOLEAN :
        Export(s, "ToCSVwithNames",
               ToCSVwithNames(series[s], heap, names, createOk))

NextSeries ==
    \E s \in Main :
        \/ CallSeries(s)
        \/ Iterate(s)
        \/ RecordStep(s)
        \/ Control(s)
        \/ Clone(s)
        \/ Clear(s)
        \/ ExportCSV(s)
        \/ ExportCSVwithNames(s)

SpecSeries == Init /\ [][NextSeries]_vars

\* Two solvers, each with its own RecorderTimeSeries, whose Solve calls run
\* at the same time: their steps interleave in every order.  The second
\* call may be given the X0 slice of the first.
PairFunctions == {[kind |-> "wave", lim |-> 0], [kind |-> "domain", lim |-> 3]}

CallPair(s) ==
    /\ pc[s] = "idle"
    /\ \E f \in PairFunctions, t0 \in {0, MaxT0} :
          \/ \E x0 \in X0s :
                SolveCall(s, f, t0, x0, 2, StopAtTimeCtl(1), "TimeSeries")
          \/ \E z \in Solvers \ {s} :
                /\ args[z].X0 # NilRef
                /\ SolveShared(s, f, t0, args[z].X0, 2, StopAtTimeCtl(1),
                               "TimeSeries")

NextPair ==
    \E s \in Solvers :
        CallPair(s) \/ Iterate(s) \/ RecordStep(s) \/ Control(s)

SpecPair == Init /\ [][NextPair]_vars

\* One Solve call with h > 0, controlled by StopAtTime and recorded in a time
\* series, whose times are small or so far from 0 that the float64 next to
\* t0 is 2 * MaxHalfH away.  The goroutine of the call takes its next step
\* as long as it has one.
Far == 2^(Mantissa + 1)

FarTimes == {Far, Far + Tol}

CallTime(s) ==
    /\ pc[s] = "idle"
    /\ \E f \in Functions, x0 \in X0s, h \in {2 * k : k \in 1..MaxHalfH} :
          \/ \E t0 \in 0..MaxT0, tmax \in 0..MaxTmax :
                SolveCall(s, f, t0, x0, h, StopAtTimeCtl(tmax), "TimeSeries")
          \/ \E t0 \in FarTimes, tmax \in FarTimes :
                SolveCall(s, f, t0, x0, h, StopAtTimeCtl(tmax), "TimeSeries")

NextTime ==
    \E s \in Main : CallTime(s) \/ Iterate(s) \/ RecordStep(s) \/ Control(s)

SpecTime == Init /\ [][NextTime]_vars /\ WF_vars(NextTime)

\* -------------------------------------------------------------- history --
RecordCalls(s) == SelectSeq(log[s], LAMBDA e : e.op = "Record")
ControllerCalls(s) == SelectSeq(log[s], LAMBDA e : e.op = "c")

\* The samples at which the controller answered (false, nil).
Commits(s) ==
    SelectSeq(log[s], LAMBDA e : e.op = "c" /\ e.err = NilErr /\ ~e.stop)

\* The steps whose computation began: one first-stage evaluation of f each.
StepsStarted(s) == Len(SelectSeq(log[s], LAMBDA e : e.op = "f" /\ e.i = 1))

\* The number of evaluations of f in a step that does not fail.
Stages(alg) ==
    CASE alg = "Euler" -> 1
      [] alg = "RK2" -> 2
      [] alg = "RK4" -> 4

Last(q) == q[Len(q)]

\* ----------------------------------------------------------------- C1 --
\* C1: when f returns an error in the k-th step, nothing is called after
\* that evaluation: Solve has returned that error and the count k-1 of the
\* steps committed before it, and the recorder got k calls (the initial
\* sample and the k-1 earlier steps), none for the failing step.
C1_FailingStepNotRecorded ==
    \A s \in Solvers : \A j \in 1..Len(log[s]) :
        (log[s][j].op = "f" /\ log[s][j].err # NilErr) =>
            /\ j = Len(log[s])
            /\ pc[s] = "returned"
            /\ ret[s].err = log[s][j].err
            /\ ret[s].n = StepsStarted(s) - 1
            /\ ret[s].n = Len(Commits(s))
            /\ Len(RecordCalls(s)) = StepsStarted(s)
            /\ args[s].r = "TimeSeries" =>
                  /\ Len(series[s]) = StepsStarted(s)
                  /\ \A i \in 1..Len(series[s]) :
                        series[s][i].time = args[s].t0 + (i - 1) * args[s].h

\* f fails in the third step of a run recorded in a time series.
C1_Witness ==
    \E s \in Solvers :
        /\ pc[s] = "returned"
        /\ ret[s] = [n |-> 2, err |-> ErrF]
        /\ args[s].r = "TimeSeries"
        /\ Len(series[s]) = 3

\* ----------------------------------------------------------------- C2 --
\* C2: when the controller returns an error at a sample, nothing is called
\* after it: Solve has returned that error with the count reached so far,
\* which does not count that sample, whatever the boolean next to the error.
C2_ControllerErrorEndsRun ==
    \A s \in Solvers : \A j \in 1..Len(log[s]) :
        (log[s][j].op = "c" /\ log[s][j].err # NilErr) =>
            /\ j = Len(log[s])
            /\ pc[s] = "returned"
            /\ ret[s].err = log[s][j].err
            /\ ret[s].n = Len(Commits(s))
            /\ ret[s].n = Len(ControllerCalls(s)) - 1
            /\ nbIterations[s] = ret[s].n

\* The controller returns (false, err) at the second sample.
C2_Witness ==
    \E s \in Solvers :
        /\ pc[s] = "returned"
        /\ ret[s] = [n |-> 1, err |-> ErrC]
        /\ Last(log[s]).op = "c"
        /\ ~Last(log[s]).stop

\* ----------------------------------------------------------------- C3 --
\* C3: after a Solve that returned a nil error, Result() is the last sample
\* at which the controller answered (false, nil), or (t0, X0) when there is
\* none, and the count returned is the number of those samples; during the
\* run the counter is the number of commits made so far.
C3_ResultIsLastCommitted ==
    \A s \in Solvers :
        /\ pc[s] \in {"iterate", "record", "control"} =>
              nbIterations[s] = Len(Commits(s))
        /\ (pc[s] = "returned" /\ ret[s].err = NilErr) =>
              /\ ret[s].n = Len(Commits(s))
              /\ Result(s) =
                    IF Commits(s) = <<>>
                    THEN [t |-> args[s].t0, X |-> args[s].X0]
                    ELSE [t |-> Last(Commits(s)).t, X |-> Last(Commits(s)).x]

\* A successful run of three committed steps.
C3_Witness ==
    \E s \in Solvers :
        /\ pc[s] = "returned"
        /\ ret[s] = [n |-> 3, err |-> NilErr]
        /\ Result(s).t = args[s].t0 + 3 * args[s].h
        /\ Result(s).X # args[s].X0

\* ----------------------------------------------------------------- C4 --
\* C4: in a run with a non-nil f the first call Solve makes is
\* Record(t0, X0), before any evaluation of f or of the controller, and
\* every later Record call directly follows the last evaluation of f of a
\* step computed without error, one call per such step.
C4_RecordFirstThenOncePerStep ==
    \A s \in Solvers :
        /\ (pc[s] # "idle" /\ args[s].f # NilF) =>
              /\ Len(log[s]) >= 1
              /\ log[s][1] = RecordEvent(args[s].t0, args[s].X0)
        /\ \A j \in 2..Len(log[s]) :
              log[s][j].op = "Record" <=>
                  /\ log[s][j - 1].op = "f"
                  /\ log[s][j - 1].err = NilErr
                  /\ log[s][j - 1].i = Stages(iteration[s])
        /\ pc[s] = "record" <=>
              /\ Len(log[s]) >= 1
              /\ Last(log[s]).op = "f"
              /\ Last(log[s]).err = NilErr
              /\ Last(log[s]).i = Stages(iteration[s])
        /\ \A j \in 1..Len(RecordCalls(s)) :
              RecordCalls(s)[j].t = args[s].t0 + (j - 1) * args[s].h

\* A run whose controller stops at once: (t0, X0) was recorded all the same,
\* before f and the controller were evaluated.
C4_Witness ==
    \E s \in Solvers :
        /\ args[s].c = AlwaysStop
        /\ pc[s] = "returned"
        /\ Len(log[s]) >= 4
        /\ log[s][1].op = "Record"
        /\ log[s][2].op = "f"
        /\ Last(log[s]).op = "c"
        /\ Len(RecordCalls(s)) = 2

\* ----------------------------------------------------------------- C5 --
\* C5: a Solve call with a nil f returns (0, non-nil error) in one step that
\* calls neither the recorder, nor f, nor the controller, and leaves
\* Result() as it was.
C5_NilFunctionRejected ==
    [][\A s \in Solvers :
          (pc[s] = "idle" /\ pc'[s] # "idle" /\ args'[s].f = NilF) =>
              /\ pc'[s] = "returned"
              /\ ret'[s].n = 0
              /\ ret'[s].err = ErrNoFunction
              /\ ret'[s].err # NilErr
              /\ log' = log
              /\ series' = series
              /\ out' = out
              /\ Result(s)' = Result(s)]_vars

\* A Solve call with a nil f has returned.
C5_Witness ==
    \E s \in Solvers :
        /\ pc[s] = "returned"
        /\ args[s].f = NilF
        /\ args[s].X0 # NilRef
        /\ ret[s].err = ErrNoFunction

\* ----------------------------------------------------------------- C6 --
\* A run controlled by StopAtTime, which has returned without an error.
StopAtTimeRun(s) == pc[s] # "idle" /\ args[s].c.kind = "StopAtTime"
Succeeded(s) == pc[s] = "returned" /\ ret[s].err = NilErr

\* C6 as claimed: StopAtTime(tmax) answers stop=true exactly when t exceeds
\* tmax by more than the tolerance, and never an error.
C6_Original ==
    \A s \in Solvers : StopAtTimeRun(s) =>
        \A j \in 1..Len(log[s]) : log[s][j].op = "c" =>
            /\ log[s][j].err = NilErr
            /\ log[s][j].stop <=> (log[s][j].t - args[s].c.tmax > Tol)

\* C6 as amended: StopAtTime(tmax) answers (true, nil) when t exceeds tmax
\* by the tolerance or more, and (false, nil) when t <= tmax or t is above
\* tmax by less than the tolerance; never an error, and the same answer for
\* every X.
C6_StopAtTimeBoundary ==
    \A s \in Solvers : StopAtTimeRun(s) =>
        \A j \in 1..Len(log[s]) : log[s][j].op = "c" =>
            LET e == log[s][j]
                tmax == args[s].c.tmax IN
            /\ e.err = NilErr
            /\ e.stop <=> (e.t - tmax >= Tol)
            /\ ~e.stop <=> (e.t <= tmax \/ e.t - tmax < Tol)
            /\ \A x \in X0s \cup {heap[e.x]} :
                  StopAtTime(tmax, e.t, x) = [stop |-> e.stop, err |-> e.err]

\* StopAtTime was asked at a time exactly one tolerance beyond tmax.
C6_Witness ==
    \E s \in Solvers :
        /\ StopAtTimeRun(s)
        /\ Len(log[s]) >= 1
        /\ Last(log[s]).op = "c"
        /\ Last(log[s]).t - args[s].c.tmax = Tol
        /\ Last(log[s]).stop

\* ----------------------------------------------------------------- C7 --
\* C7 as claimed, on the runs with h > 0 that start at or before tmax: in a
\* successful run controlled by StopAtTime(tmax) no recorded time, the last
\* one included, exceeds tmax by more than the tolerance.
C7_Original ==
    \A s \in Solvers :
        (/\ StopAtTimeRun(s)
         /\ Succeeded(s)
         /\ args[s].h > 0
         /\ args[s].t0 <= args[s].c.tmax) =>
            \A j \in 1..Len(RecordCalls(s)) :
                RecordCalls(s)[j].t - args[s].c.tmax <= Tol

\* C7 as amended: a sample whose time is tmax is not the last one recorded;
\* the last recorded sample is the one at which the controller stopped, at
\* a time that exceeds tmax by the tolerance or more; the samples recorded
\* between the initial one and the last one have times below tmax + the
\* tolerance, and Result() is the second-to-last recorded sample.
C7_LastRecordedIsBeyondTmax ==
    \A s \in Solvers : StopAtTimeRun(s) =>
        LET R == RecordCalls(s)
            tmax == args[s].c.tmax IN
        /\ \A j \in 2..Len(R) - 1 : R[j].t - tmax < Tol
        /\ Succeeded(s) =>
              /\ Len(R) >= 2
              /\ Last(R).t - tmax >= Tol
              /\ \A j \in 2..Len(R) : R[j].t = tmax => j < Len(R)
              /\ Result(s) = [t |-> R[Len(R) - 1].t, X |-> R[Len(R) - 1].x]
              /\ ret[s].n >= 1 => Result(s).t - tmax < Tol

\* A successful run in which a step landed exactly on tmax.
C7_Witness ==
    \E s \in Solvers :
        /\ StopAtTimeRun(s)
        /\ Succeeded(s)
        /\ args[s].h >= Tol
        /\ \E j \in 2..Len(RecordCalls(s)) :
              RecordCalls(s)[j].t = args[s].c.tmax
        /\ Result(s).t = args[s].c.tmax

\* ----------------------------------------------------------------- C8 --
\* C8: with StopAtTime(tmax), h > 0, t0 <= tmax and tmax - t0 a multiple of
\* h, a successful Solve leaves Result() at time tmax with the state that
\* was computed for that time.
C8_ResultTimeIsTmax ==
    \A s \in Solvers :
        (/\ StopAtTimeRun(s)
         /\ Succeeded(s)
         /\ args[s].h > 0
         /\ args[s].t0 <= args[s].c.tmax
         /\ (args[s].c.tmax - args[s].t0) % args[s].h = 0) =>
            /\ Result(s).t = args[s].c.tmax
            /\ \E j \in 1..Len(RecordCalls(s)) :
                  /\ RecordCalls(s)[j].t = args[s].c.tmax
                  /\ RecordCalls(s)[j].x = Result(s).X

\* ----------------------------------------------------------------- C9 --
\* The runs of C9: h > 0, t0 <= tmax, f never fails, StopAtTime(tmax).
C9_Run(s) ==
    /\ StopAtTimeRun(s)
    /\ args[s].h > 0
    /\ args[s].t0 <= args[s].c.tmax
    /\ args[s].f.kind \in {"unit", "wave"}

\* The sample times t0 + k*h, k >= 1, that StopAtTime(tmax) accepts.
C9_Accepted(s) ==
    {k \in 1..(MaxTmax + Tol) :
        \/ args[s].t0 + k * args[s].h <= args[s].c.tmax
        \/ args[s].t0 + k * args[s].h - args[s].c.tmax < Tol}

\* Those strictly between tmax and tmax + the tolerance.
C9_InBand(s) ==
    {k \in C9_Accepted(s) : args[s].t0 + k * args[s].h > args[s].c.tmax}

\* C9 as claimed: the count returned is floor((tmax - t0) / h) and the
\* recorder gets that many samples plus two.
C9_Original ==
    \A s \in Solvers : (C9_Run(s) /\ Succeeded(s)) =>
        /\ ret[s].n = (args[s].c.tmax - args[s].t0) \div args[s].h
        /\ Len(RecordCalls(s)) =
              (args[s].c.tmax - args[s].t0) \div args[s].h + 2

\* C9 as amended: the count returned is the number of sample times t0 + k*h
\* (k >= 1) that are at most tmax or above it by less than the tolerance,
\* the recorder gets that many samples plus two, and the count is
\* floor((tmax - t0) / h) when no sample time lies strictly between tmax and
\* tmax + the tolerance.
C9_CountWithTolerance ==
    \A s \in Solvers : (C9_Run(s) /\ Succeeded(s)) =>
        /\ ret[s].n = Cardinality(C9_Accepted(s))
        /\ Len(RecordCalls(s)) = ret[s].n + 2
        /\ ret[s].n =
              (args[s].c.tmax - args[s].t0) \div args[s].h
                  + Cardinality(C9_InBand(s))

\* A successful run with a sample time strictly inside the tolerance band,
\* and a step size that is not below the tolerance.
C9_Witness ==
    \E s \in Solvers :
        /\ C9_Run(s)
        /\ Succeeded(s)
        /\ args[s].h >= Tol
        /\ C9_InBand(s) # {}
        /\ ret[s].n = (args[s].c.tmax - args[s].t0) \div args[s].h + 1

\* ---------------------------------------------------------------- C10 --
\* The number of sub-controller calls directly before history entry j.
SubCallsBefore(s, j) ==
    CHOOSE n \in 0..(j - 1) :
        /\ \A i \in 1..n : log[s][j - i].op = "sub"
        /\ j - n - 1 >= 1 => log[s][j - n - 1].op # "sub"

Decisive(a) == a.err # NilErr \/ a.stop

\* C10: MultiController calls its sub-controllers in the given order at the
\* same (t, X), up to and including the first that answers an error or
\* stop=true, and no later one; its answer is (true, err) for an error, also
\* when the boolean next to it is false, (true, nil) for a stop, and
\* (false, nil) when no sub-controller stops or fails or the list is empty.
C10_MultiControllerShortCircuits ==
    \A s \in Solvers : (pc[s] # "idle" /\ args[s].c.kind = "Multi") =>
        \A j \in 1..Len(log[s]) : log[s][j].op = "c" =>
            LET e == log[s][j]
                subs == args[s].c.subs
                n == SubCallsBefore(s, j)
                sub(i) == log[s][j - n - 1 + i] IN
            /\ n <= Len(subs)
            /\ \A i \in 1..n :
                  /\ sub(i).i = i
                  /\ sub(i).t = e.t
                  /\ sub(i).x = e.x
                  /\ [stop |-> sub(i).stop, err |-> sub(i).err] =
                        CallController(subs[i], e.t, heap[e.x])
                  /\ i < n => ~Decisive(sub(i))
            /\ IF n >= 1 /\ Decisive(sub(n))
               THEN e.stop /\ e.err = sub(n).err
               ELSE n = Len(subs) /\ ~e.stop /\ e.err = NilErr
            /\ subs = <<AlwaysStop, NeverStop>> =>
                  n = 1 /\ e.stop /\ e.err = NilErr
            /\ subs = <<NeverStop, ErrorController>> =>
                  n = 2 /\ e.stop /\ e.err = ErrC

\* MultiController(NeverStop, ErrorController) ended a run with the error.
C10_Witness ==
    \E s \in Solvers :
        /\ args[s].c = MultiCtl(<<NeverStop, ErrorController>>)
        /\ pc[s] = "returned"
        /\ ret[s].err = ErrC
        /\ Last(log[s]).op = "c"
        /\ Last(log[s]).stop
        /\ SubCallsBefore(s, Len(log[s])) = 2

\* ---------------------------------------------------------------- C11 --
\* C11: no step of a Solve call changes a vector that exists already, so the
\* contents of X0 and of every vector handed to Record stay as they were;
\* the step function leaves the vector it was given unchanged and returns a
\* vector that did not exist before.
C11_NoWriteToVisibleVector ==
    [][/\ Len(heap') >= Len(heap)
       /\ \A ref \in 1..Len(heap) : heap'[ref] = heap[ref]
       /\ \A s \in Solvers :
             (pc[s] = "iterate" /\ pc'[s] = "record") =>
                 /\ Xn'[s] \notin 1..Len(heap)
                 /\ Xn'[s] \in 1..Len(heap')
                 /\ Xm'[s] = Xm[s]
                 /\ heap'[Xm[s]] = heap[Xm[s]]
                 /\ heap'[args[s].X0] = heap[args[s].X0]
                 /\ \A j \in 1..Len(log[s]) :
                       log[s][j].op = "Record" =>
                           /\ log[s][j].x # Xn'[s]
                           /\ heap'[log[s][j].x] = heap[log[s][j].x]]_vars

\* A run of three steps that moved the state away from X0, recorded in a
\* time series: four vectors exist, and X0 still holds what the caller put.
C11_Witness ==
    \E s \in Solvers :
        /\ pc[s] = "returned"
        /\ ret[s] = [n |-> 2, err |-> NilErr]
        /\ args[s].r = "TimeSeries"
        /\ Len(heap) = 4
        /\ heap[args[s].X0] = <<1, 2>>
        /\ heap[Result(s).X] # heap[args[s].X0]
        /\ Len(series[s]) = 4

\* ---------------------------------------------------------------- C12 --
\* The slices of solver s that the caller or the engine can write through.
Held(s) == {args[s].X0, Result(s).X, Xm[s], Xn[s]} \ {NilRef}

\* C12: the states stored in the series are independent copies: a step
\* that writes to X0, to the vector of Result() or to another vector of the
\* engine changes no state stored in the series, and neither X0, nor the
\* vector of Result(), nor another entry shares the storage of an entry.
C12_SeriesHoldsCopies ==
    [][\A s \in Solvers :
          /\ \A i \in 1..Len(series[s]) :
                /\ heap'[series[s][i].state] = heap[series[s][i].state]
                /\ series[s][i].state \notin Held(s)
                /\ \A j \in 1..Len(series[s]) :
                      j # i => series[s][j].state # series[s][i].state
          /\ Result(s).X # NilRef => Result(s).X # args[s].X0]_vars

\* ---------------------------------------------------------------- C13 --
\* The times at which a step from tn evaluates f, as claimed.
StageTimes(alg, t, h) ==
    CASE alg = "Euler" -> <<t>>
      [] alg = "RK2" -> <<t, t + h \div 2>>
      [] alg = "RK4" -> <<t, t + h \div 2, t + h \div 2, t + h>>

\* The number of steps begun up to history entry j.
StepsUpTo(s, j) ==
    Cardinality({i \in 1..j : log[s][i].op = "f" /\ log[s][i].i = 1})

\* C13: a step that does not fail evaluates f once (Euler), twice (RK2) or
\* four times (RK4), at tn, tn + h/2, tn + h/2, tn + h in that order; when an
\* evaluation fails it is the last one of the step, the step returns that
\* error and a nil vector, and Solve returns the error without a new vector,
\* a Record call or a commit.
C13_StagesAndFailure ==
    \A s \in Solvers :
        LET alg == iteration[s]
            n == Stages(alg)
            h == args[s].h IN
        /\ \A j \in 1..Len(log[s]) : log[s][j].op = "f" =>
              LET e == log[s][j]
                  first == j - e.i + 1
                  base == args[s].t0 + (StepsUpTo(s, j) - 1) * h IN
              /\ e.i \in 1..n
              /\ first >= 1
              /\ \A i \in 1..e.i :
                    /\ log[s][first + i - 1].op = "f"
                    /\ log[s][first + i - 1].i = i
                    /\ log[s][first + i - 1].t = StageTimes(alg, base, h)[i]
                    /\ i < e.i => log[s][first + i - 1].err = NilErr
              /\ (e.err = NilErr /\ e.i < n) =>
                    /\ j < Len(log[s])
                    /\ log[s][j + 1].op = "f"
                    /\ log[s][j + 1].i = e.i + 1
              /\ (e.err = NilErr /\ e.i = n) =>
                    IF j = Len(log[s])
                    THEN pc[s] = "record" /\ Len(heap) = StepsUpTo(s, j) + 1
                    ELSE log[s][j + 1].op = "Record"
              /\ e.err # NilErr =>
                    /\ j = Len(log[s])
                    /\ pc[s] = "returned"
                    /\ ret[s] = [n |-> StepsUpTo(s, j) - 1, err |-> e.err]
                    /\ Len(heap) = StepsUpTo(s, j)
                    /\ Len(RecordCalls(s)) = StepsUpTo(s, j)
                    /\ Xm[s] = Last(RecordCalls(s)).x
                    /\ Result(s) = [t |-> 0, X |-> NilRef]
        /\ pc[s] = "iterate" =>
              LET res == Iteration(alg, args[s].f, tm[s], heap[Xm[s]], h)
                  m == Len(res.evals) IN
              /\ m \in 1..n
              /\ \A i \in 1..m :
                    /\ res.evals[i].t = StageTimes(alg, tm[s], h)[i]
                    /\ i < m => res.evals[i].err = NilErr
              /\ IF res.evals[m].err = NilErr
                 THEN /\ m = n
                      /\ res.err = NilErr
                      /\ Len(res.X) = Len(heap[Xm[s]])
                 ELSE /\ res.err = res.evals[m].err
                      /\ res.X = <<>>

\* An RK4 run whose first step failed in its third evaluation of f, at the
\* same time as the second one, which did not fail.
C13_Witness ==
    \E s \in Solvers :
        /\ iteration[s] = "RK4"
        /\ pc[s] = "returned"
        /\ ret[s] = [n |-> 0, err |-> ErrF]
        /\ args[s].f.kind = "range"
        /\ Len(heap) = 1
        /\ Last(log[s]).op = "f"
        /\ Last(log[s]).i = 3
        /\ log[s][Len(log[s]) - 1].t = Last(log[s]).t
        /\ log[s][Len(log[s]) - 1].err = NilErr

\* ---------------------------------------------------------------- C14 --
\* Vector arithmetic and the slope of f, for the reference formulas.
VAdd(X, Y) == [i \in 1..Len(X) |-> X[i] + Y[i]]
VScale(a, X) == [i \in 1..Len(X) |-> a * X[i]]
VDiv(X, d) == [i \in 1..Len(X) |-> X[i] \div d]
Slope(f, t, X) == Function(f, t, X).dXdt

\* The reference formulas of the three methods.
EulerFormula(f, t, X, h) == VAdd(X, VScale(h, Slope(f, t, X)))

RK2Formula(f, t, X, h) ==
    VAdd(X, VScale(h, Slope(f, t + h \div 2,
                            VAdd(X, VScale(h \div 2, Slope(f, t, X))))))

RK4Formula(f, t, X, h) ==
    LET k1 == VScale(h, Slope(f, t, X))
        k2 == VScale(h, Slope(f, t + h \div 2, VAdd(X, VDiv(k1, 2))))
        k3 == VScale(h, Slope(f, t + h \div 2, VAdd(X, VDiv(k2, 2))))
        k4 == VScale(h, Slope(f, t + h, VAdd(X, k3))) IN
    VAdd(X, VDiv(VAdd(VAdd(k1, VScale(2, k2)), VAdd(VScale(2, k3), k4)), 6))

Formula(alg, f, t, X, h) ==
    CASE alg = "Euler" -> EulerFormula(f, t, X, h)
      [] alg = "RK2" -> RK2Formula(f, t, X, h)
      [] alg = "RK4" -> RK4Formula(f, t, X, h)

\* C14: a step that does not fail returns the reference formula of its
\* method, component by component, and Solve takes the step the same way
\* for the three methods: from the current sample (tm, Xm) with the step
\* size h of the call, to the time tm + h.
C14_StepIsReferenceFormula ==
    \A s \in Solvers :
        /\ pc[s] = "iterate" =>
              \A alg \in Algorithms :
                  LET res == Iteration(alg, args[s].f, tm[s], heap[Xm[s]],
                                       args[s].h) IN
                  res.err = NilErr =>
                      res.X = Formula(alg, args[s].f, tm[s], heap[Xm[s]],
                                      args[s].h)
        /\ pc[s] = "record" =>
              /\ tn[s] = tm[s] + args[s].h
              /\ heap[Xn[s]] = Formula(iteration[s], args[s].f, tm[s],
                                       heap[Xm[s]], args[s].h)

\* An RK4 step was taken on a field that depends on t and X, with a result
\* that differs from the results of the other two formulas.
C14_Witness ==
    \E s \in Solvers :
        /\ iteration[s] = "RK4"
        /\ pc[s] = "record"
        /\ args[s].f.kind = "wave"
        /\ nbIterations[s] >= 1
        /\ heap[Xn[s]] = RK4Formula(args[s].f, tm[s], heap[Xm[s]], args[s].h)
        /\ heap[Xn[s]] # EulerFormula(args[s].f, tm[s], heap[Xm[s]], args[s].h)
        /\ heap[Xn[s]] # RK2Formula(args[s].f, tm[s], heap[Xm[s]], args[s].h)
        /\ heap[Xn[s]] # heap[Xm[s]]

C16_RecordNeverFails ==
    \A s \in Solvers :
        /\ pc[s] # "panic"
        /\ pc[s] \in {"iterate", "control"} =>
              ~RecordPanics(Recorder(args[s].r), heap[Xm[s]])

\* ---------------------------------------------------------------- C17 --
\* The calls that the latest Solve call of solver s made: the operation, the
\* time, the state (its content), the index, and the answer.
LatestRun(s) ==
    LET from == Last(ops[s]).at
        run == SubSeq(log[s], from + 1, Len(log[s])) IN
    [k \in 1..Len(run) |->
        [run[k] EXCEPT !.x = IF @ = NilRef THEN <<>> ELSE heap[@]]]

\* The part of the series that the latest Solve call of solver s recorded.
LatestSeries(s) ==
    LET from == Last(ops[s]).len
        part == SubSeq(series[s], from + 1, Len(series[s])) IN
    [k \in 1..Len(part) |->
        [time |-> part[k].time, state |-> heap[part[k].state]]]

ResultValue(s) ==
    [t |-> Result(s).t,
     X |-> IF Result(s).X = NilRef THEN <<>> ELSE heap[Result(s).X]]

SameArguments(a, b) ==
    /\ a.f = b.f /\ a.t0 = b.t0 /\ a.h = b.h /\ a.c = b.c
    /\ a.X0 # NilRef /\ b.X0 # NilRef /\ heap[a.X0] = heap[b.X0]

\* Solver 1 has returned from its second call and solver 2 from its call
\* with the same arguments.
BothReturned ==
    /\ pc[1] = "returned" /\ Len(ops[1]) = 2
    /\ pc[2] = "returned" /\ Len(ops[2]) = 1

\* C17: a Solve call on a solver that ran before, whatever that run was, and
\* the call with the same f, t0, X0, h and controller on a solver that did
\* not, return the same count and error and make the same calls of the
\* recorder, f and the controller with the same values; Result() is the
\* same after both when they succeed, and also when the earlier run had the
\* same arguments.
C17_SameArgumentsSameOutcome ==
    BothReturned =>
        /\ SameArguments(args[1], args[2])
        /\ ret[1] = ret[2]
        /\ LatestRun(1) = LatestRun(2)
        /\ LatestSeries(1) = LatestSeries(2)
        /\ ret[1].err = NilErr => ResultValue(1) = ResultValue(2)
        /\ SameArguments(ops[1][2].args, args[1]) =>
              ResultValue(1) = ResultValue(2)

\* Solver 1 ran from t0 = 1 and left a result, then ran from t0 = 0 with
\* other arguments, three steps; solver 2 ran with those.
C17_Witness ==
    /\ BothReturned
    /\ ~SameArguments(ops[1][2].args, args[1])
    /\ ops[1][2].args.t0 = 1
    /\ ops[1][2].len >= 3
    /\ ops[1][2].args.h # args[1].h
    /\ args[1].t0 = 0
    /\ ret[2] = [n |-> 2, err |-> NilErr]
    /\ Len(LatestSeries(2)) = 4
    /\ Len(series[1]) = ops[1][2].len + 4
    /\ Result(1).X # Result(2).X
    /\ ResultValue(2).X # <<1, 2>>

\* ---------------------------------------------------------------- C18 --
\* The calls of C18: f never fails and the controller never answers
\* stop=true or an error, StopAtTime(tmax) with t0 <= tmax and h <= 0
\* included.
NeverStopped(s) ==
    /\ pc[s] # "idle"
    /\ args[s].f.kind \in {"unit", "wave"}
    /\ \/ args[s].c.kind \in {"Fixed", "User"}
          /\ ~args[s].c.stop
          /\ args[s].c.err = NilErr
       \/ /\ args[s].c.kind = "StopAtTime"
          /\ args[s].t0 <= args[s].c.tmax
          /\ args[s].h <= 0

\* C18: such a call never returns and keeps calling the recorder: Solve is
\* always inside its loop, about to take a step, to record it or to ask the
\* controller, which then lets it go on.
C18_SolveNeverEnds ==
    \A s \in Solvers : NeverStopped(s) =>
        /\ pc[s] \in {"iterate", "record", "control"}
        /\ Len(RecordCalls(s)) =
              nbIterations[s] + (IF pc[s] = "control" THEN 2 ELSE 1)

\* ---------------------------------------------------------------- C19 --
\* The step is an export by the caller of solver s.
Exports(s, names) ==
    /\ Len(ops'[s]) = Len(ops[s]) + 1
    /\ Last(ops'[s]).op \in names

ReturnedError(r) == r.err \notin {NilErr, Panic, "none"}

\* C19: an export of an empty series, by ToCSV or by ToCSVwithNames,
\* returns a non-nil error and creates no file; ToCSVwithNames also returns
\* a non-nil error and creates no file when the number of names is not the
\* dimension of the first sample.
C19_EmptyExportReturnsError ==
    [][\A s \in Solvers :
          /\ (Exports(s, {"ToCSV", "ToCSVwithNames"}) /\ Len(series[s]) = 0) =>
                /\ ReturnedError(csvRet'[s])
                /\ pc'[s] = pc[s]
                /\ csv' = csv
          /\ (/\ Exports(s, {"ToCSVwithNames"})
              /\ Len(series[s]) > 0
              /\ Len(csvRet'[s].names) # Len(heap[series[s][1].state])) =>
                /\ ReturnedError(csvRet'[s])
                /\ csv' = csv]_vars

\* ---------------------------------------------------------------- C20 --
\* The step is the operation op of the caller of solver s.
Does(s, op) ==
    /\ Len(ops'[s]) = Len(ops[s]) + 1
    /\ Last(ops'[s]).op = op

\* The times and the values of a time series.
Values(ser, hp) ==
    [i \in 1..Len(ser) |-> [time |-> ser[i].time, state |-> hp[ser[i].state]]]

\* The samples handed to Record in the k-th operation of the caller, a
\* Solve call that has returned.
Trajectory(s, k) ==
    LET to == IF k < Len(ops[s]) THEN ops[s][k + 1].at ELSE Len(log[s])
        run == SelectSeq(SubSeq(log[s], ops[s][k].at + 1, to),
                         LAMBDA e : e.op = "Record") IN
    [i \in 1..Len(run) |-> [time |-> run[i].t, state |-> heap[run[i].x]]]

\* C20: Clone returns a series of the same length with the same times and
\* values, in storage that is new and shared with nothing; Clear leaves the
\* series with length 0; no other operation changes the clone or its
\* values; and after Solve, Clone, Clear, Solve with one recorder the clone
\* holds the first trajectory and the recorder only the second.
C20_CloneAndClear ==
    [][\A s \in Solvers :
          /\ Does(s, "Clone") =>
                /\ Values(clone'[s], heap') = Values(series[s], heap)
                /\ series'[s] = series[s]
                /\ \A ref \in 1..Len(heap) : heap'[ref] = heap[ref]
                /\ \A i \in 1..Len(clone'[s]) :
                      /\ clone'[s][i].state \notin 1..Len(heap)
                      /\ \A j \in 1..Len(clone'[s]) :
                            j # i => clone'[s][j].state # clone'[s][i].state
          /\ Does(s, "Clear") =>
                /\ Len(series'[s]) = 0
                /\ clone'[s] = clone[s]
          /\ ~Does(s, "Clone") =>
                /\ clone'[s] = clone[s]
                /\ Values(clone'[s], heap') = Values(clone[s], heap)
          /\ \A i \in 1..Len(clone'[s]) :
                /\ clone'[s][i].state \notin
                      {args'[s].X0, Result(s)'.X, Xm'[s], Xn'[s]}
                /\ \A j \in 1..Len(series'[s]) :
                      series'[s][j].state # clone'[s][i].state
          /\ (/\ pc'[s] = "returned"
              /\ [k \in 1..Len(ops'[s]) |-> ops'[s][k].op] =
                    <<"Solve", "Clone", "Clear", "Solve">>) =>
                /\ Values(clone'[s], heap') = Trajectory(s, 1)'
                /\ Values(series'[s], heap') = Trajectory(s, 4)']_vars

\* Solve, Clone, Clear, Solve was run with two calls that differ: the clone
\* and the series hold different trajectories.
C20_Witness ==
    \E s \in Solvers :
        /\ pc[s] = "returned"
        /\ [k \in 1..Len(ops[s]) |-> ops[s][k].op] =
              <<"Solve", "Clone", "Clear", "Solve">>
        /\ Len(clone[s]) = 4
        /\ Len(series[s]) = 3
        /\ Values(clone[s], heap) = Trajectory(s, 1)
        /\ Values(series[s], heap) = Trajectory(s, 4)
        /\ Trajectory(s, 1) # Trajectory(s, 4)

\* ---------------------------------------------------------------- C21 --
\* What the call of solver s gives when it runs by itself.
Alone(s) ==
    SolveAlone(iteration[s], args[s].f, args[s].t0, heap[args[s].X0],
               args[s].h, args[s].c)

IsPrefix(p, q) == Len(p) <= Len(q) /\ SubSeq(q, 1, Len(p)) = p

\* C21: when two solvers with their own time series run at the same time,
\* with their own X0 vectors or with one X0 vector for both, then in every
\* interleaving each run records a prefix of the series of the run by
\* itself and ends with its count, error, Result() and series.
C21_InterleavedRunsAreIndependent ==
    \A s \in Solvers : pc[s] # "idle" =>
        /\ IsPrefix(Values(series[s], heap), Alone(s).recorded)
        /\ pc[s] = "returned" =>
              /\ ret[s] = [n |-> Alone(s).n, err |-> Alone(s).err]
              /\ Values(series[s], heap) = Alone(s).recorded
              /\ ResultValue(s) =
                    IF Alone(s).stored
                    THEN [t |-> Alone(s).t, X |-> Alone(s).X]
                    ELSE [t |-> 0, X |-> <<>>]

\* Two runs on one X0 vector whose steps interleaved (the vectors of the
\* second run were made before the result of the first): the first ended
\* after two commits, the second with an error of f.
C21_Witness ==
    /\ pc[1] = "returned" /\ pc[2] = "returned"
    /\ args[1].X0 = args[2].X0
    /\ ret[1] = [n |-> 2, err |-> NilErr]
    /\ ret[2].err = ErrF
    /\ Len(series[1]) = 4
    /\ Result(1).X > Xm[2]
    /\ Xm[2] > args[1].X0

\* ---------------------------------------------------------------- C22 --
\* C22: in a Solve call with h > 0 controlled by StopAtTime, the time handed
\* to the recorder and to the controller is h beyond the time of the sample
\* before it, at every step, and the call returns in the end.
C22_TimeGrowsUntilReturn ==
    /\ [][\A s \in Main :
            (pc[s] = "iterate" /\ pc'[s] = "record") =>
                /\ tn'[s] = tm[s] + args[s].h
                /\ tn'[s] > tm[s]]_vars
    /\ \A s \in Main : (pc[s] = "iterate") ~> (pc[s] = "returned")

\* ---------------------------------------------------------------- C23 --
\* A Solve call with a non-nil f that is over.
Over(s) == pc[s] \in {"returned", "panic"} /\ args[s].f # NilF

\* The place in the history of the first call of a controller or of a
\* sub-controller, 0 when there is none.
FirstControl(s) ==
    LET at == {j \in 1..Len(log[s]) : log[s][j].op \in {"c", "sub"}} IN
    IF at = {} THEN 0 ELSE CHOOSE j \in at : \A k \in at : j <= k

\* C23: every Solve call with a non-nil f computes a step before anything
\* else ends it, the first evaluation of the controller is at the sample
\* of time t0 + h, right after the second Record call, which was given that
\* sample; so a call with StopAtTime(tmax), h > 0 and t0 beyond tmax + the
\* tolerance records two samples, returns (0, nil) and leaves Result() at
\* (t0, X0).
C23_FirstStepBeforeController ==
    \A s \in Main :
        /\ Over(s) => StepsStarted(s) >= 1
        /\ FirstControl(s) # 0 =>
              LET j == FirstControl(s) IN
              /\ log[s][j].t = args[s].t0 + args[s].h
              /\ log[s][j - 1] = RecordEvent(log[s][j].t, log[s][j].x)
              /\ log[s][j].x # args[s].X0
              /\ Len(SelectSeq(SubSeq(log[s], 1, j),
                               LAMBDA e : e.op = "Record")) = 2
        /\ (/\ Over(s)
            /\ args[s].c.kind = "StopAtTime"
            /\ args[s].h > 0
            /\ args[s].t0 - args[s].c.tmax > Tol) =>
              /\ pc[s] = "returned"
              /\ Len(RecordCalls(s)) = 2
              /\ ret[s] = [n |-> 0, err |-> NilErr]
              /\ Result(s) = [t |-> args[s].t0, X |-> args[s].X0]

\* ---------------------------------------------------------------- C24 --
\* C24: the only step of a Solve call after which Result() gives something
\* else is its return with a nil error; so a call that returns an error
\* (no f, a failure of f, an error of the controller) leaves Result() as it
\* was before the call: (0, nil) when it is the first call of the solver,
\* the result of the call before it otherwise.
C24_ErrorLeavesResult ==
    [][\A s \in Solvers :
        /\ Result(s)' # Result(s) =>
              pc'[s] = "returned" /\ ret'[s].err = NilErr
        /\ (pc'[s] = "returned" /\ ret'[s].err # NilErr
                /\ Len(ops'[s]) = 1) =>
              Result(s)' = [t |-> 0, X |-> NilRef]]_vars

\* The second call of a solver has returned an error of f after a commit,
\* and Result() is the result of the first call, which is not the sample
\* committed last.
C24_Witness ==
    /\ pc[1] = "returned"
    /\ Len(ops[1]) = 2
    /\ ret[1] = [n |-> 1, err |-> ErrF]
    /\ Result(1).X # NilRef
    /\ Result(1).X < args[1].X0
    /\ Result(1).t # tm[1]
    /\ Result(1).X # Xm[1]

\* ---------------------------------------------------------------- C25 --
\* C25: when a Solve call with a non-nil f has returned the count n, the
\* number of Record calls it made is n + 2 when the error is nil (the last
\* recorded sample is the one at which the controller said stop, Result()
\* is the one recorded before it), n + 2 when the controller returned an
\* error (the last recorded sample is the one it was called with), and
\* n + 1 when f failed.
C25_RecordCallsAndCount ==
    \A s \in Main : (pc[s] = "returned" /\ args[s].f # NilF) =>
        LET R == RecordCalls(s)
            e == Last(log[s]) IN
        /\ ret[s].err = NilErr =>
              /\ Len(R) = ret[s].n + 2
              /\ e.op = "c" /\ e.stop
              /\ [t |-> Last(R).t, X |-> Last(R).x] = [t |-> e.t, X |-> e.x]
              /\ Result(s) = [t |-> R[Len(R) - 1].t, X |-> R[Len(R) - 1].x]
        /\ (ret[s].err # NilErr /\ e.op = "c") =>
              /\ Len(R) = ret[s].n + 2
              /\ e.err = ret[s].err
              /\ [t |-> Last(R).t, X |-> Last(R).x] = [t |-> e.t, X |-> e.x]
        /\ (ret[s].err # NilErr /\ e.op = "f") =>
              /\ Len(R) = ret[s].n + 1
              /\ e.err = ret[s].err
        /\ e.op \in {"c", "f"}

\* The controller returned an error at the third sample: three Record
\* calls and the count 1.
C25_Witness ==
    /\ pc[1] = "returned"
    /\ ret[1] = [n |-> 1, err |-> ErrC]
    /\ Len(RecordCalls(1)) = 3
    /\ Last(RecordCalls(1)).t = Last(log[1]).t
    /\ Last(RecordCalls(1)).x # Result(1).X

\* ---------------------------------------------------------------- C26 --
\* The samples that a Solve call with the arguments a hands to its recorder.
Recorded(s, a) ==
    IF a.f = NilF THEN <<>>
    ELSE SolveAlone(iteration[s], a.f, a.t0, heap[a.X0], a.h, a.c).recorded

\* Solver 1 has returned from its second call, both calls with the same
\* RecorderTimeSeries and no Clear between them.
TwoRuns == pc[1] = "returned" /\ Len(ops[1]) = 2

FirstRun == Recorded(1, ops[1][2].args)
SecondRun == Recorded(1, args[1])

====
